---------------------------- MODULE Spec2Model ----------------------------
(***************************************************************************)
(* A model of layout-recalculate-detector:                                 *)
(*   - logRecalculates  (src/index.mjs): the reflow aggregator,            *)
(*   - the main async function of src/index.mjs: the capture orchestrator, *)
(*   - logLayoutShifts  (src/index.mjs): the layout shift report,          *)
(*   - src/test.mjs: the hydration analyzer and getReactComponents.        *)
(* JavaScript values: an object is a record, a missing property is a field *)
(* that is not in the record's DOMAIN, an array is a record with a length  *)
(* and its items, a string is a string, undefined is the empty sequence    *)
(* where a value is optional.                                              *)
(***************************************************************************)
EXTENDS Integers, Sequences, FiniteSets, TLC

VARIABLES
    \* logRecalculates
    profile,                 \* the argument of logRecalculates
    idx,                     \* the forEach position in traceEvents (1-based)
    updateLayoutTreeEvents,  \* the entries by code location, in insertion order
    reported,                \* the entries printed, in printing order
    pcR,                     \* "idle" | "forEach" | "sort" | "done"
    \* the dual-shape calls of logRecalculates
    events,                  \* an event list X
    outObject,               \* what logRecalculates({traceEvents: X}) printed
    outArray,                \* what logRecalculates(X) printed
    \* the capture orchestrator
    flags,                   \* the command line: help, deviceValid, url, scrollDown
    pc,                      \* the statement the orchestrator is at
    log,                     \* the calls made and the lines printed, in order
    exitCode,                \* <<>> while running, <<code>> after process.exit
    \* logLayoutShifts
    layoutShifts,            \* the argument of logLayoutShifts
    shiftIdx,                \* the forEach position in layoutShifts (1-based)
    console,                 \* the lines printed, in order
    pcS,                     \* "idle" | "start" | "forEach" | "done"
    \* the hydration analyzer, up to the call of parser.topDown
    trace,                   \* trace.traceEvents, the parsed profile.mapped.json
    hydrationStartIndex,     \* <<>> before line 6, then <<index>>, 0-based or -1
    redrawTimings,           \* <<>> before line 24, then <<the array>>
    redrawIndexBeforeHydration, \* <<>> before line 28, then <<index>>
    timing,                  \* <<>> or <<timingBefore, timingAfter>>
    topDownArgs,             \* <<>> or the two arguments of parser.topDown
    stderrH,                 \* the lines of console.error
    reportsPrinted,          \* the two rankings were computed and printed
    exitH,                   \* <<>> or <<exit code>>
    pcH,                     \* "idle" | "find" | "filter" | "index" | "topDown" |
                             \* "report" | "done" | "exited" | "TypeError"
    \* getReactComponents
    topDownRootNode,         \* the call tree parser.topDown returned
    callStack,               \* the pending calls of traverseTopDownNode, next first
    visited,                 \* the nodes the callback was called on, in order
    reactComponents,         \* the entries by function name, in insertion order
    componentTimings,        \* <<>> or <<the array getReactComponents returned>>
    pcC                      \* "idle" | "traverse" | "done"

varsRecalc == <<profile, idx, updateLayoutTreeEvents, reported, pcR>>
varsDual == <<events, outObject, outArray>>
varsOrch == <<flags, pc, log, exitCode>>
varsShifts == <<layoutShifts, shiftIdx, console, pcS>>
varsHyd == <<trace, hydrationStartIndex, redrawTimings, redrawIndexBeforeHydration,
             timing, topDownArgs, stderrH, reportsPrinted, exitH, pcH>>
varsComp == <<topDownRootNode, callStack, visited, reactComponents,
              componentTimings, pcC>>
vars == <<varsRecalc, varsDual, varsOrch, varsShifts, varsHyd, varsComp>>

\* what the actions of one part leave alone
exceptRecalc == <<varsDual, varsOrch, varsShifts, varsHyd, varsComp>>
exceptDual == <<varsRecalc, varsOrch, varsShifts, varsHyd, varsComp>>
exceptOrch == <<varsRecalc, varsDual, varsShifts, varsHyd, varsComp>>
exceptShifts == <<varsRecalc, varsDual, varsOrch, varsHyd, varsComp>>
exceptHyd == <<varsRecalc, varsDual, varsOrch, varsShifts, varsComp>>
exceptComp == <<varsRecalc, varsDual, varsOrch, varsShifts, varsHyd>>

----------------------------------------------------------------------------
(* Bounds *)

MaxEvents == 3
MaxShifts == 2
MaxDiffs == 1
MaxTrace == 3
MaxNodes == 4

----------------------------------------------------------------------------
(* JavaScript helpers *)

Has(obj, key) == key \in DOMAIN obj

JsArray(seq) == [length |-> Len(seq), items |-> seq]

RECURSIVE SeqsUpTo(_, _)
SeqsUpTo(S, n) ==
    IF n = 0 THEN {<<>>}
    ELSE LET shorter == SeqsUpTo(S, n - 1)
         IN  shorter \cup {Append(s, x) : s \in {t \in shorter : Len(t) = n - 1}, x \in S}

----------------------------------------------------------------------------
(* logRecalculates: the inputs *)

ULT == "UpdateLayoutTree"

Frame(url, fn, line, col) ==
    [url |-> url, functionName |-> fn, lineNumber |-> line, columnNumber |-> col]

FrameA  == Frame("a.js", "render", 1, 12)
FrameA2 == Frame("a.js", "", 1, 12)
FrameB  == Frame("a.js", "layout", 11, 2)
FrameC  == Frame("a.js", "measure", 1, 130)

TraceEvent(name, dur, args) == [name |-> name, dur |-> dur, args |-> args]

TraceEventPool ==
    { TraceEvent("Layout", 3, [beginData |-> [stackTrace |-> <<FrameA>>]]),
      TraceEvent(ULT, 2, [elementCount |-> 1]),
      TraceEvent(ULT, 2, [beginData |-> [frame |-> "F1"]]),
      TraceEvent(ULT, 1, [beginData |-> [stackTrace |-> <<>>]]),
      TraceEvent(ULT, 1, [beginData |-> [stackTrace |-> <<FrameA>>]]),
      TraceEvent(ULT, 2, [beginData |-> [stackTrace |-> <<FrameA2, FrameB>>]]),
      TraceEvent(ULT, 3, [beginData |-> [stackTrace |-> <<FrameB>>]]),
      TraceEvent(ULT, 2, [beginData |-> [stackTrace |-> <<FrameC, FrameA>>]]) }

EventLists == SeqsUpTo(TraceEventPool, MaxEvents)

----------------------------------------------------------------------------
(* logRecalculates: the code *)

\* a variant that accepts the object shape only: profile.traceEvents || []
TraceEventsOfObjectOnly(p) ==
    IF Has(p, "traceEvents") THEN p.traceEvents ELSE JsArray(<<>>)

\* const traceEvents = "traceEvents" in profile ? profile.traceEvents : profile
TraceEventsOf(p) == IF Has(p, "traceEvents") THEN p.traceEvents ELSE p

\* traceEvent.args.beginData?.stackTrace?.[0], <<>> when undefined
FirstStackFrame(traceEvent) ==
    IF /\ Has(traceEvent.args, "beginData")
       /\ Has(traceEvent.args.beginData, "stackTrace")
       /\ Len(traceEvent.args.beginData.stackTrace) >= 1
    THEN <<traceEvent.args.beginData.stackTrace[1]>>
    ELSE <<>>

\* a variant whose key leaves the column out
CodeLocationNoColumn(stackTrace) ==
    stackTrace.url \o ":" \o ToString(stackTrace.lineNumber)

\* `${stackTrace.url}:${stackTrace.lineNumber}:${stackTrace.columnNumber}`
CodeLocation(stackTrace) ==
    stackTrace.url \o ":" \o ToString(stackTrace.lineNumber)
                   \o ":" \o ToString(stackTrace.columnNumber)

IndexOfKey(entries, key) ==
    LET hits == {i \in 1..Len(entries) : entries[i].key = key}
    IN  IF hits = {} THEN 0 ELSE CHOOSE i \in hits : TRUE

\* updateLayoutTreeEvents[codeLocation] || { ..., duration: 0, count: 0 }
\* then duration += traceEvent.dur and count++
AddToEntry(entries, stackTrace, dur) ==
    LET codeLocation == CodeLocation(stackTrace)
        at == IndexOfKey(entries, codeLocation)
        fresh == [key |-> codeLocation,
                  url |-> stackTrace.url,
                  functionName |-> stackTrace.functionName,
                  lineNumber |-> stackTrace.lineNumber,
                  columnNumber |-> stackTrace.columnNumber,
                  duration |-> 0,
                  count |-> 0]
        tracesForCodeLocation == IF at = 0 THEN fresh ELSE entries[at]
        updated == [tracesForCodeLocation EXCEPT
                      !.duration = @ + dur, !.count = @ + 1]
    IN  IF at = 0 THEN Append(entries, updated)
        ELSE [entries EXCEPT ![at] = updated]

\* a variant without the check of the event's name
ForEachTraceEventAnyName(entries, traceEvent) ==
    LET stackTrace == FirstStackFrame(traceEvent)
    IN  IF stackTrace = <<>> THEN entries
        ELSE AddToEntry(entries, stackTrace[1], traceEvent.dur)

\* the callback of traceEvents.forEach
ForEachTraceEvent(entries, traceEvent) ==
    IF traceEvent.name # ULT THEN entries
    ELSE LET stackTrace == FirstStackFrame(traceEvent)
         IN  IF stackTrace = <<>> THEN entries
             ELSE AddToEntry(entries, stackTrace[1], traceEvent.dur)

\* a variant with the comparator's operands exchanged
CompareDurationAscending(a, b) == a.duration - b.duration

\* (a, b) => b.duration - a.duration
CompareDuration(a, b) == b.duration - a.duration

\* Array.prototype.sort: stable, by the comparator
RECURSIVE InsertSorted(_, _)
InsertSorted(sorted, e) ==
    IF sorted = <<>> THEN <<e>>
    ELSE IF CompareDuration(Head(sorted), e) > 0
         THEN <<e>> \o sorted
         ELSE <<Head(sorted)>> \o InsertSorted(Tail(sorted), e)

RECURSIVE SortEntries(_)
SortEntries(entries) ==
    IF entries = <<>> THEN <<>>
    ELSE InsertSorted(SortEntries(SubSeq(entries, 1, Len(entries) - 1)),
                      entries[Len(entries)])

\* what the forEach after the sort prints for one entry
PrintedEntry(entry) ==
    [key |-> entry.key,
     count |-> entry.count,
     times |-> IF entry.count # 1 THEN "times" ELSE "time",
     duration |-> entry.duration,
     fn |-> IF entry.functionName # "" THEN <<entry.functionName>> ELSE <<>>,
     location |-> entry.url \o ":" \o ToString(entry.lineNumber)
                  \o (IF entry.columnNumber > 120
                      THEN ":" \o ToString(entry.columnNumber) ELSE "")]

PrintEntries(entries) == [i \in 1..Len(entries) |-> PrintedEntry(entries[i])]

\* logRecalculates as a function of its argument
RECURSIVE Aggregate(_, _)
Aggregate(entries, items) ==
    IF items = <<>> THEN entries
    ELSE Aggregate(ForEachTraceEvent(entries, Head(items)), Tail(items))

LogRecalculates(p) ==
    PrintEntries(SortEntries(Aggregate(<<>>, TraceEventsOf(p).items)))

----------------------------------------------------------------------------
(* logRecalculates, step by step *)

IdleDual == events = <<>> /\ outObject = <<>> /\ outArray = <<>>

IdleOrch ==
    /\ flags = [help |-> FALSE, deviceValid |-> TRUE, url |-> FALSE, scrollDown |-> FALSE]
    /\ pc = "idle"
    /\ log = <<>>
    /\ exitCode = <<>>

IdleShifts ==
    /\ layoutShifts = JsArray(<<>>)
    /\ shiftIdx = 1
    /\ console = <<>>
    /\ pcS = "idle"

IdleHyd ==
    /\ trace = <<>>
    /\ hydrationStartIndex = <<>>
    /\ redrawTimings = <<>>
    /\ redrawIndexBeforeHydration = <<>>
    /\ timing = <<>>
    /\ topDownArgs = <<>>
    /\ stderrH = <<>>
    /\ reportsPrinted = FALSE
    /\ exitH = <<>>
    /\ pcH = "idle"

IdleComp ==
    /\ topDownRootNode = <<>>
    /\ callStack = <<>>
    /\ visited = <<>>
    /\ reactComponents = <<>>
    /\ componentTimings = <<>>
    /\ pcC = "idle"

InitRecalc ==
    /\ \E X \in EventLists :
         profile \in {JsArray(X), [traceEvents |-> JsArray(X)]}
    /\ idx = 1
    /\ updateLayoutTreeEvents = <<>>
    /\ reported = <<>>
    /\ pcR = "forEach"
    /\ IdleDual
    /\ IdleOrch
    /\ IdleShifts
    /\ IdleHyd
    /\ IdleComp

ForEachStep ==
    /\ pcR = "forEach"
    /\ idx <= TraceEventsOf(profile).length
    /\ updateLayoutTreeEvents' =
         ForEachTraceEvent(updateLayoutTreeEvents, TraceEventsOf(profile).items[idx])
    /\ idx' = idx + 1
    /\ UNCHANGED <<profile, reported, pcR, exceptRecalc>>

ForEachEnd ==
    /\ pcR = "forEach"
    /\ idx > TraceEventsOf(profile).length
    /\ pcR' = "sort"
    /\ UNCHANGED <<profile, idx, updateLayoutTreeEvents, reported, exceptRecalc>>

SortAndPrint ==
    /\ pcR = "sort"
    /\ reported' = PrintEntries(SortEntries(updateLayoutTreeEvents))
    /\ pcR' = "done"
    /\ UNCHANGED <<profile, idx, updateLayoutTreeEvents, exceptRecalc>>

NextRecalc == ForEachStep \/ ForEachEnd \/ SortAndPrint

SpecRecalc == InitRecalc /\ [][NextRecalc]_vars

----------------------------------------------------------------------------
(* logRecalculates called with both shapes of one event list *)

IdleRecalc ==
    /\ profile = JsArray(<<>>)
    /\ idx = 1
    /\ updateLayoutTreeEvents = <<>>
    /\ reported = <<>>
    /\ pcR = "idle"

InitDual ==
    /\ events \in EventLists
    /\ outObject = <<>>
    /\ outArray = <<>>
    /\ IdleRecalc
    /\ IdleOrch
    /\ IdleShifts
    /\ IdleHyd
    /\ IdleComp

CallWithObject ==
    /\ outObject = <<>>
    /\ outObject' = <<LogRecalculates([traceEvents |-> JsArray(events)])>>
    /\ UNCHANGED <<events, outArray, exceptDual>>

CallWithArray ==
    /\ outArray = <<>>
    /\ outArray' = <<LogRecalculates(JsArray(events))>>
    /\ UNCHANGED <<events, outObject, exceptDual>>

NextDual == CallWithObject \/ CallWithArray

SpecDual == InitDual /\ [][NextDual]_vars

----------------------------------------------------------------------------
(* The capture orchestrator: the module body and the main async function *)

\* a variant that closes the browser before the tracking result is read
ProgramOrderCloseFirst ==
    << "mkdir", "launch", "newPage", "createCDPSession", "Network.enable",
       "ServiceWorker.enable", "Emulation.setCPUThrottlingRate", "emulate",
       "clsStartTracking", "tracing.start", "goto", "waitForNetworkIdle",
       "scrollToBottom", "waitForTimeout", "waitForNetworkIdle2",
       "tracing.stop", "browser.close", "clsGetTrackingResult",
       "loadProfileWithSourceMaps", "writeFile", "logRecalculates",
       "logLayoutShifts", "done" >>

\* the awaited calls of the main function, in the order of the source
ProgramOrder ==
    << "mkdir", "launch", "newPage", "createCDPSession", "Network.enable",
       "ServiceWorker.enable", "Emulation.setCPUThrottlingRate", "emulate",
       "clsStartTracking", "tracing.start", "goto", "waitForNetworkIdle",
       "scrollToBottom", "waitForTimeout", "waitForNetworkIdle2",
       "tracing.stop", "clsGetTrackingResult", "browser.close",
       "loadProfileWithSourceMaps", "writeFile", "logRecalculates",
       "logLayoutShifts", "done" >>

\* the statement after the call named label
Following(label) ==
    ProgramOrder[1 + CHOOSE i \in 1..Len(ProgramOrder) : ProgramOrder[i] = label]

\* an awaited call that resolves
Complete(label) ==
    /\ pc = label
    /\ log' = Append(log, label)
    /\ pc' = Following(label)
    /\ UNCHANGED <<flags, exitCode, exceptOrch>>

\* process.exit(code) after printing line
Exit(line, code) ==
    /\ log' = Append(log, line)
    /\ exitCode' = <<code>>
    /\ pc' = "exited"
    /\ UNCHANGED <<flags, exceptOrch>>

InitOrch ==
    /\ flags \in [help : BOOLEAN, deviceValid : BOOLEAN, url : BOOLEAN,
                   scrollDown : BOOLEAN]
    /\ pc = "typeFlag"
    /\ log = <<>>
    /\ exitCode = <<>>
    /\ IdleRecalc
    /\ IdleDual
    /\ IdleShifts
    /\ IdleHyd
    /\ IdleComp

\* typeFlag: the device's type function exits on an unknown device
ParseFlags ==
    /\ pc = "typeFlag"
    /\ IF ~flags.deviceValid
       THEN Exit("error:Invalid device", 1)
       ELSE /\ pc' = "help"
            /\ UNCHANGED <<flags, log, exitCode, exceptOrch>>

CheckHelp ==
    /\ pc = "help"
    /\ IF flags.help
       THEN Exit("print:usage", 0)
       ELSE /\ pc' = "url"
            /\ UNCHANGED <<flags, log, exitCode, exceptOrch>>

CheckUrl ==
    /\ pc = "url"
    /\ IF ~flags.url
       THEN Exit("print:url argument missing", 0)
       ELSE /\ pc' = "mkdir"
            /\ UNCHANGED <<flags, log, exitCode, exceptOrch>>

Mkdir == Complete("mkdir")
Launch == Complete("launch")
NewPage == Complete("newPage")
CreateCDPSession == Complete("createCDPSession")
NetworkEnable == Complete("Network.enable")
ServiceWorkerEnable == Complete("ServiceWorker.enable")
SetCPUThrottlingRate == Complete("Emulation.setCPUThrottlingRate")
Emulate == Complete("emulate")
ClsStartTracking == Complete("clsStartTracking")
TracingStart == Complete("tracing.start")

\* a variant without the try/catch around page.goto
GotoUncaught ==
    /\ pc = "goto"
    /\ \/ /\ log' = Append(log, "goto")
          /\ pc' = Following("goto")
          /\ UNCHANGED exitCode
       \/ /\ log' = log \o <<"goto", "timeout:goto">>
          /\ pc' = "exited"
          /\ exitCode' = <<1>>
    /\ UNCHANGED <<flags, exceptOrch>>

\* try { await page.goto(...) } catch (e) { console.warn(...) }
Goto ==
    /\ pc = "goto"
    /\ \/ log' = Append(log, "goto")
       \/ log' = log \o <<"goto", "timeout:goto", "warn:Page load took to long">>
    /\ pc' = Following("goto")
    /\ UNCHANGED <<flags, exitCode, exceptOrch>>

\* try { await page.waitForNetworkIdle(...) } catch (e) { console.warn(...) }
\* then if (scrollDown)
WaitForNetworkIdle ==
    /\ pc = "waitForNetworkIdle"
    /\ \/ log' = Append(log, "waitForNetworkIdle")
       \/ log' = log \o <<"waitForNetworkIdle", "timeout:waitForNetworkIdle",
                           "warn:Network didn't idle">>
    /\ pc' = IF flags.scrollDown THEN Following("waitForNetworkIdle")
             ELSE "tracing.stop"
    /\ UNCHANGED <<flags, exitCode, exceptOrch>>

ScrollToBottom == Complete("scrollToBottom")

\* the first statement of the try block after the scroll
WaitForTimeout ==
    /\ pc = "waitForTimeout"
    /\ \/ /\ log' = Append(log, "waitForTimeout")
          /\ pc' = Following("waitForTimeout")
       \/ /\ log' = log \o <<"waitForTimeout", "timeout:waitForTimeout",
                              "warn:Network didn't idle">>
          /\ pc' = "tracing.stop"
    /\ UNCHANGED <<flags, exitCode, exceptOrch>>

\* the second statement of the try block after the scroll
WaitForNetworkIdle2 ==
    /\ pc = "waitForNetworkIdle2"
    /\ \/ log' = Append(log, "waitForNetworkIdle2")
       \/ log' = log \o <<"waitForNetworkIdle2", "timeout:waitForNetworkIdle2",
                           "warn:Network didn't idle">>
    /\ pc' = Following("waitForNetworkIdle2")
    /\ UNCHANGED <<flags, exitCode, exceptOrch>>

TracingStop == Complete("tracing.stop")
ClsGetTrackingResult == Complete("clsGetTrackingResult")
BrowserClose == Complete("browser.close")
LoadProfileWithSourceMaps == Complete("loadProfileWithSourceMaps")
WriteFile == Complete("writeFile")

CallLogRecalculates ==
    /\ pc = "logRecalculates"
    /\ log' = log \o <<"print:Style Recalculates / Layout Reflows", "logRecalculates">>
    /\ pc' = Following("logRecalculates")
    /\ UNCHANGED <<flags, exitCode, exceptOrch>>

CallLogLayoutShifts ==
    /\ pc = "logLayoutShifts"
    /\ log' = log \o <<"print:Layout Shifts", "logLayoutShifts",
                        "print:Wrote measurements to">>
    /\ pc' = Following("logLayoutShifts")
    /\ UNCHANGED <<flags, exitCode, exceptOrch>>

NextOrch ==
    \/ ParseFlags \/ CheckHelp \/ CheckUrl
    \/ Mkdir \/ Launch \/ NewPage \/ CreateCDPSession \/ NetworkEnable
    \/ ServiceWorkerEnable \/ SetCPUThrottlingRate \/ Emulate
    \/ ClsStartTracking \/ TracingStart
    \/ Goto \/ WaitForNetworkIdle \/ ScrollToBottom \/ WaitForTimeout
    \/ WaitForNetworkIdle2
    \/ TracingStop \/ ClsGetTrackingResult \/ BrowserClose
    \/ LoadProfileWithSourceMaps \/ WriteFile
    \/ CallLogRecalculates \/ CallLogLayoutShifts

SpecOrch == InitOrch /\ [][NextOrch]_vars

\* every awaited call settles, and the event loop then runs the continuation
FairSpecOrch == SpecOrch /\ WF_vars(NextOrch)

----------------------------------------------------------------------------
(* logLayoutShifts *)

Abs(n) == IF n < 0 THEN -n ELSE n

\* {nodeName, xPath, x, y, width, height}: current rect minus previous rect
NodeDiff(x, y) ==
    [nodeName |-> "div.hero", xPath |-> "/html/body/div[1]",
     x |-> x, y |-> y, width |-> 0, height |-> 0]

NodeDiffPool ==
    { NodeDiff(0, 0), NodeDiff(3, 0), NodeDiff(-2, 0), NodeDiff(0, 3),
      NodeDiff(0, -2), NodeDiff(-2, 3), NodeDiff(3, -2) }

\* value is in thousandths: 23 stands for 0.023
LayoutShiftRecords ==
    {[value |-> 23, diffs |-> JsArray(d)] : d \in SeqsUpTo(NodeDiffPool, MaxDiffs)}

\* (value * 100).toFixed(2) of a value given in thousandths
PercentToFixed2(value) ==
    ToString(value \div 10) \o "." \o ToString(value % 10) \o "0"

\* a variant that looks at x before y
MovedLineXFirst(diff) ==
    IF diff.x # 0
    THEN <<[kind |-> "moved",
            arrow |-> IF diff.x < 0 THEN "left" ELSE "right",
            word |-> IF diff.x > 0 THEN "right" ELSE "left",
            px |-> Abs(diff.x)]>>
    ELSE IF diff.y # 0
         THEN <<[kind |-> "moved",
                 arrow |-> IF diff.y < 0 THEN "up" ELSE "down",
                 word |-> IF diff.y > 0 THEN "down" ELSE "top",
                 px |-> Abs(diff.y)]>>
         ELSE <<>>

\* if (diff.y) {...} else if (diff.x) {...}: the line printed, if any;
\* arrow names the emoji, word the text after "moved"
MovedLine(diff) ==
    IF diff.y # 0
    THEN <<[kind |-> "moved",
            arrow |-> IF diff.y < 0 THEN "up" ELSE "down",
            word |-> IF diff.y > 0 THEN "down" ELSE "top",
            px |-> Abs(diff.y)]>>
    ELSE IF diff.x # 0
         THEN <<[kind |-> "moved",
                 arrow |-> IF diff.x < 0 THEN "left" ELSE "right",
                 word |-> IF diff.x > 0 THEN "right" ELSE "left",
                 px |-> Abs(diff.x)]>>
         ELSE <<>>

\* the callback of diffs.forEach
DiffLines(diff) ==
    << [kind |-> "nodeName", text |-> " " \o diff.nodeName],
       [kind |-> "xPath", text |-> " $x(" \o diff.xPath \o ")"] >>
    \o MovedLine(diff)

RECURSIVE DiffsLines(_)
DiffsLines(diffs) ==
    IF diffs = <<>> THEN <<>>
    ELSE DiffLines(Head(diffs)) \o DiffsLines(Tail(diffs))

\* the callback of layoutShifts.forEach
ShiftLines(shift) ==
    << [kind |-> "cls", text |-> "CLS by " \o PercentToFixed2(shift.value) \o "%"] >>
    \o DiffsLines(shift.diffs.items)
    \o << [kind |-> "blank", text |-> ""] >>

InitShifts ==
    /\ \E s \in SeqsUpTo(LayoutShiftRecords, MaxShifts) : layoutShifts = JsArray(s)
    /\ shiftIdx = 1
    /\ console = <<>>
    /\ pcS = "start"
    /\ IdleRecalc
    /\ IdleDual
    /\ IdleOrch
    /\ IdleHyd
    /\ IdleComp

\* if (layoutShifts.length === 0) { console.log(...); return; }
CheckNoShifts ==
    /\ pcS = "start"
    /\ IF layoutShifts.length = 0
       THEN /\ console' = <<[kind |-> "none", text |-> "No layout shifts detected"]>>
            /\ pcS' = "done"
       ELSE /\ console' = console
            /\ pcS' = "forEach"
    /\ UNCHANGED <<layoutShifts, shiftIdx, exceptShifts>>

LogShift ==
    /\ pcS = "forEach"
    /\ shiftIdx <= layoutShifts.length
    /\ console' = console \o ShiftLines(layoutShifts.items[shiftIdx])
    /\ shiftIdx' = shiftIdx + 1
    /\ UNCHANGED <<layoutShifts, pcS, exceptShifts>>

LogShiftsEnd ==
    /\ pcS = "forEach"
    /\ shiftIdx > layoutShifts.length
    /\ pcS' = "done"
    /\ UNCHANGED <<layoutShifts, shiftIdx, console, exceptShifts>>

NextShifts == CheckNoShifts \/ LogShift \/ LogShiftsEnd

SpecShifts == InitShifts /\ [][NextShifts]_vars

----------------------------------------------------------------------------
(* The hydration analyzer (src/test.mjs), lines 1 to 41 and its report *)

\* Array.prototype.findIndex, given the (1-based) positions the callback
\* accepts: the 0-based index of the first of them, or -1
FindIndex(hits) ==
    IF hits = {} THEN -1
    ELSE (CHOOSE i \in hits : \A j \in hits : i <= j) - 1

\* a variant that looks for the text anywhere in the string
IncludesText(str, suffix) ==
    \E i \in 1..(Len(str) - Len(suffix) + 1) :
       SubSeq(str, i, i + Len(suffix) - 1) = suffix

\* String.prototype.endsWith
EndsWith(str, suffix) ==
    /\ Len(str) >= Len(suffix)
    /\ SubSeq(str, Len(str) - Len(suffix) + 1, Len(str)) = suffix

\* node.callFrame && (node.callFrame.functionName || "").endsWith(".hydrate")
IsHydrateNode(node) ==
    /\ Has(node, "callFrame")
    /\ EndsWith(IF Has(node.callFrame, "functionName")
                THEN node.callFrame.functionName ELSE "",
                ".hydrate")

\* e.args?.data?.cpuProfile?.nodes?.some(...)
HasHydrateNode(e) ==
    /\ Has(e, "args")
    /\ Has(e.args, "data")
    /\ Has(e.args.data, "cpuProfile")
    /\ Has(e.args.data.cpuProfile, "nodes")
    /\ \E i \in 1..Len(e.args.data.cpuProfile.nodes) :
         IsHydrateNode(e.args.data.cpuProfile.nodes[i])

\* e.name === "UpdateLayoutTree" && !e.args.beginData.stackTrace
IsRedraw(e) == e.name = ULT /\ ~Has(e.args.beginData, "stackTrace")

\* { start: x.ts, end: x.ts + (x.dur || 0) }
RedrawTiming(x) ==
    [start |-> x.ts, end |-> x.ts + (IF Has(x, "dur") THEN x.dur ELSE 0)]

RECURSIVE RedrawTimingsOf(_)
RedrawTimingsOf(evs) ==
    IF evs = <<>> THEN <<>>
    ELSE IF IsRedraw(Head(evs))
         THEN <<RedrawTiming(Head(evs))>> \o RedrawTimingsOf(Tail(evs))
         ELSE RedrawTimingsOf(Tail(evs))

\* redrawTimings.findIndex(({ end }) => end > hydrationTs) - 1
RedrawIndexBefore(timings, hydrationTs) ==
    FindIndex({i \in 1..Len(timings) : timings[i].end > hydrationTs}) - 1

\* timings[index] is an element (0-based), not undefined
Defined(timings, index) == index >= 0 /\ index < Len(timings)

(* The inputs *)

Redraw(ts) == [name |-> ULT, ts |-> ts, args |-> [beginData |-> [frame |-> "F1"]]]

RedrawDur(ts, dur) ==
    [name |-> ULT, ts |-> ts, dur |-> dur, args |-> [beginData |-> [frame |-> "F1"]]]

ProfileChunk(ts, nodes) ==
    [name |-> "ProfileChunk", ts |-> ts,
     args |-> [data |-> [cpuProfile |-> [nodes |-> nodes]]]]

FunctionNode(fn) == [id |-> 1, callFrame |-> [functionName |-> fn, url |-> "a.js"]]

HydrationEvents ==
    { ProfileChunk(2500, <<FunctionNode("t.hydrate")>>),
      ProfileChunk(4000, <<FunctionNode("t.hydrate")>>),
      ProfileChunk(4000, <<[id |-> 1], FunctionNode("render"),
                           FunctionNode("Object.hydrate")>>) }

OtherEvents ==
    { [name |-> "TracingStartedInBrowser", ts |-> 2000],
      [name |-> "FunctionCall", ts |-> 2000, args |-> [data |-> [url |-> "a.js"]]],
      [name |-> "Profile", ts |-> 2000,
       args |-> [data |-> [cpuProfile |-> [samples |-> <<>>]]]],
      ProfileChunk(2000, <<[id |-> 1]>>),
      ProfileChunk(2000, <<[id |-> 1, callFrame |-> [url |-> "a.js"]]>>),
      ProfileChunk(2000, <<FunctionNode("hydrate")>>),
      ProfileChunk(2000, <<FunctionNode("a.hydrateRoot")>>),
      [name |-> ULT, ts |-> 2000, dur |-> 500,
       args |-> [beginData |-> [stackTrace |-> <<FrameA>>]]] }

RedrawEvents ==
    {Redraw(ts) : ts \in {1000, 3000, 5000}}
    \cup {RedrawDur(ts, 1500) : ts \in {1000, 3000, 5000}}

AnalyzerEventPool == HydrationEvents \cup OtherEvents \cup RedrawEvents

(* The script, on a trace whose events are in the order of their timestamps *)

InitHyd ==
    /\ trace \in {t \in SeqsUpTo(AnalyzerEventPool, MaxTrace) :
                    \A i, j \in 1..Len(t) : i < j => t[i].ts <= t[j].ts}
    /\ hydrationStartIndex = <<>>
    /\ redrawTimings = <<>>
    /\ redrawIndexBeforeHydration = <<>>
    /\ timing = <<>>
    /\ topDownArgs = <<>>
    /\ stderrH = <<>>
    /\ reportsPrinted = FALSE
    /\ exitH = <<>>
    /\ pcH = "find"
    /\ IdleRecalc
    /\ IdleDual
    /\ IdleOrch
    /\ IdleShifts
    /\ IdleComp

\* lines 6 to 15
FindHydrationStart ==
    /\ pcH = "find"
    /\ LET index == FindIndex({i \in 1..Len(trace) : HasHydrateNode(trace[i])})
       IN  /\ hydrationStartIndex' = <<index>>
           /\ IF index < 0
              THEN /\ stderrH' = Append(stderrH, "Could not find the react hydration")
                   /\ exitH' = <<1>>
                   /\ pcH' = "exited"
              ELSE /\ pcH' = "filter"
                   /\ UNCHANGED <<stderrH, exitH>>
    /\ UNCHANGED <<trace, redrawTimings, redrawIndexBeforeHydration, timing,
                   topDownArgs, reportsPrinted, exceptHyd>>

\* lines 19 to 27
CollectRedrawTimings ==
    /\ pcH = "filter"
    /\ redrawTimings' = <<RedrawTimingsOf(trace)>>
    /\ pcH' = "index"
    /\ UNCHANGED <<trace, hydrationStartIndex, redrawIndexBeforeHydration, timing,
                   topDownArgs, stderrH, reportsPrinted, exitH, exceptHyd>>

\* lines 28 to 34; reading .end or .start of undefined throws a TypeError
FindRedrawsAroundHydration ==
    /\ pcH = "index"
    /\ LET timings == redrawTimings[1]
           before == RedrawIndexBefore(timings, trace[hydrationStartIndex[1] + 1].ts)
           after == before + 1
       IN  /\ redrawIndexBeforeHydration' = <<before>>
           /\ IF Defined(timings, before) /\ Defined(timings, after)
              THEN /\ timing' = <<timings[before + 1].end, timings[after + 1].start>>
                   /\ pcH' = "topDown"
                   /\ UNCHANGED exitH
              ELSE /\ timing' = <<>>
                   /\ pcH' = "TypeError"
                   /\ exitH' = <<1>>
    /\ UNCHANGED <<trace, hydrationStartIndex, redrawTimings, topDownArgs, stderrH,
                   reportsPrinted, exceptHyd>>

\* lines 37 to 41
TopDown ==
    /\ pcH = "topDown"
    /\ topDownArgs' = <<timing[1] \div 1000, timing[2] \div 1000>>
    /\ pcH' = "report"
    /\ UNCHANGED <<trace, hydrationStartIndex, redrawTimings,
                   redrawIndexBeforeHydration, timing, stderrH, reportsPrinted,
                   exitH, exceptHyd>>

\* lines 133 to 156: the two rankings of the tree parser.topDown returned
PrintRankings ==
    /\ pcH = "report"
    /\ reportsPrinted' = TRUE
    /\ pcH' = "done"
    /\ UNCHANGED <<trace, hydrationStartIndex, redrawTimings,
                   redrawIndexBeforeHydration, timing, topDownArgs, stderrH,
                   exitH, exceptHyd>>

NextHyd ==
    \/ FindHydrationStart \/ CollectRedrawTimings \/ FindRedrawsAroundHydration
    \/ TopDown \/ PrintRankings

SpecHyd == InitHyd /\ [][NextHyd]_vars

----------------------------------------------------------------------------
(* getReactComponents (src/test.mjs) on the tree parser.topDown returned *)

(* The call tree: node 1 is the root, parent[n] < n, and a node's totalTime
   is its self time plus the totalTime of its children. *)

UpperCase ==
    {"A", "B", "C", "D", "E", "F", "G", "H", "I", "J", "K", "L", "M",
     "N", "O", "P", "Q", "R", "S", "T", "U", "V", "W", "X", "Y", "Z"}

LowerCase ==
    {"a", "b", "c", "d", "e", "f", "g", "h", "i", "j", "k", "l", "m",
     "n", "o", "p", "q", "r", "s", "t", "u", "v", "w", "x", "y", "z"}

CharAt(str, i) == SubSeq(str, i, i)

\* /^[A-Z][a-z]+[A-Za-z][A-Za-z]+$/.test(str)
MatchesComponentName(str) ==
    \E k \in 2..(Len(str) - 2) :
       /\ CharAt(str, 1) \in UpperCase
       /\ \A i \in 2..k : CharAt(str, i) \in LowerCase
       /\ CharAt(str, k + 1) \in UpperCase \cup LowerCase
       /\ \A i \in (k + 2)..Len(str) : CharAt(str, i) \in UpperCase \cup LowerCase

\* String.prototype.includes
Includes(str, part) ==
    \E i \in 1..(Len(str) - Len(part) + 1) : SubSeq(str, i, i + Len(part) - 1) = part

\* node.event?.args?.data?.callFrame, <<>> when undefined
CallFrameOf(node) ==
    IF /\ Has(node, "event")
       /\ Has(node.event, "args")
       /\ Has(node.event.args, "data")
       /\ Has(node.event.args.data, "callFrame")
    THEN <<node.event.args.data.callFrame>>
    ELSE <<>>

\* the condition of the if statement of lines 65 to 69
IsReactComponent(callFrame) ==
    /\ callFrame.url # ""
    /\ ~Includes(callFrame.url, "node_module")
    /\ MatchesComponentName(callFrame.functionName)

IndexOfName(entries, name) ==
    LET hits == {i \in 1..Len(entries) : entries[i].name = name}
    IN  IF hits = {} THEN 0 ELSE CHOOSE i \in hits : TRUE

\* lines 70 to 79
AddComponentNode(entries, name, n, totalTime) ==
    LET at == IndexOfName(entries, name)
        componentEntry == IF at = 0 THEN [name |-> name, nodes |-> <<>>, duration |-> 0]
                          ELSE entries[at]
        updated == [componentEntry EXCEPT !.nodes = Append(@, n),
                                          !.duration = @ + totalTime]
    IN  IF at = 0 THEN Append(entries, updated) ELSE [entries EXCEPT ![at] = updated]

\* a variant of the callback that does not return false
ComponentCallbackNoPrune(entries, n, node) ==
    LET callFrame == CallFrameOf(node)
    IN  IF callFrame = <<>> THEN [entries |-> entries, descend |-> TRUE]
        ELSE IF callFrame[1].functionName = "ResizeObserver"
             THEN [entries |-> entries, descend |-> TRUE]
             ELSE IF IsReactComponent(callFrame[1])
                  THEN [entries |-> AddComponentNode(entries, callFrame[1].functionName,
                                                     n, node.totalTime),
                        descend |-> TRUE]
                  ELSE [entries |-> entries, descend |-> TRUE]

\* the callback of getReactComponents, lines 56 to 82: the entries after the
\* call, and whether the call returned something other than false
ComponentCallback(entries, n, node) ==
    LET callFrame == CallFrameOf(node)
    IN  IF callFrame = <<>> THEN [entries |-> entries, descend |-> TRUE]
        ELSE IF callFrame[1].functionName = "ResizeObserver"
             THEN [entries |-> entries, descend |-> TRUE]
             ELSE IF IsReactComponent(callFrame[1])
                  THEN [entries |-> AddComponentNode(entries, callFrame[1].functionName,
                                                     n, node.totalTime),
                        descend |-> FALSE]
                  ELSE [entries |-> entries, descend |-> TRUE]

\* node.children().values(), in insertion order
ChildrenOf(tree, n) ==
    LET kids == {m \in 1..Len(tree) : tree[m].parent = n}
        RECURSIVE Ascending(_)
        Ascending(S) ==
            IF S = {} THEN <<>>
            ELSE LET least == CHOOSE m \in S : \A o \in S : m <= o
                 IN  <<least>> \o Ascending(S \ {least})
    IN  Ascending(kids)

\* ([, a], [, b]) => a.duration < b.duration ? 1 : a.duration > b.duration ? -1 : 0
CompareComponents(a, b) ==
    IF a.duration < b.duration THEN 1 ELSE IF a.duration > b.duration THEN -1 ELSE 0

RECURSIVE InsertComponent(_, _)
InsertComponent(sorted, e) ==
    IF sorted = <<>> THEN <<e>>
    ELSE IF CompareComponents(Head(sorted), e) > 0
         THEN <<e>> \o sorted
         ELSE <<Head(sorted)>> \o InsertComponent(Tail(sorted), e)

RECURSIVE SortComponents(_)
SortComponents(entries) ==
    IF entries = <<>> THEN <<>>
    ELSE InsertComponent(SortComponents(SubSeq(entries, 1, Len(entries) - 1)),
                         entries[Len(entries)])

(* The inputs *)

FunctionCall(url, fn) ==
    [args |-> [data |-> [callFrame |-> [url |-> url, functionName |-> fn]]]]

NodeEventPool ==
    { [args |-> [data |-> [type |-> "load"]]],
      FunctionCall("/src/Card.js", "Card"),
      FunctionCall("/src/Header.js", "Header"),
      FunctionCall("/src/App.js", "App"),
      FunctionCall("/src/util.js", "render"),
      FunctionCall("/src/Chart.js", "ResizeObserver"),
      FunctionCall("/node_modules/react-redux/lib/Provider.js", "Provider"),
      FunctionCall("", "Array") }

ParentMaps(n) == {p \in [1..n -> 0..(n - 1)] : p[1] = 0 /\ \A i \in 2..n : p[i] \in 1..(i - 1)}

RECURSIVE TotalTime(_, _, _)
TotalTime(parent, n, count) ==
    LET kids == {m \in (n + 1)..count : parent[m] = n}
        RECURSIVE Sum(_)
        Sum(S) == IF S = {} THEN 0
                  ELSE LET m == CHOOSE x \in S : TRUE
                       IN  TotalTime(parent, m, count) + Sum(S \ {m})
    IN  n + Sum(kids)

\* the tree with these parents and events
CallTree(count, parent, ev) ==
    [n \in 1..count |->
       IF n = 1 THEN [parent |-> 0, totalTime |-> TotalTime(parent, 1, count)]
       ELSE [parent |-> parent[n], event |-> ev[n],
             totalTime |-> TotalTime(parent, n, count)]]

(* getReactComponents, one call of traverseTopDownNode at a time *)

InitComp ==
    /\ \E count \in 1..MaxNodes :
         \E parent \in ParentMaps(count), ev \in [2..count -> NodeEventPool] :
            topDownRootNode = CallTree(count, parent, ev)
    /\ callStack = << <<1, 0>> >>
    /\ visited = <<>>
    /\ reactComponents = <<>>
    /\ componentTimings = <<>>
    /\ pcC = "traverse"
    /\ IdleRecalc
    /\ IdleDual
    /\ IdleOrch
    /\ IdleShifts
    /\ IdleHyd

\* traverseTopDownNode(node, callback, depth), lines 43 to 52
TraverseTopDownNode ==
    /\ pcC = "traverse"
    /\ callStack # <<>>
    /\ LET n == Head(callStack)[1]
           depth == Head(callStack)[2]
           called == ComponentCallback(reactComponents, n, topDownRootNode[n])
           children == ChildrenOf(topDownRootNode, n)
           calls == [i \in 1..Len(children) |-> <<children[i], depth + 1>>]
       IN  /\ visited' = Append(visited, n)
           /\ reactComponents' = called.entries
           /\ callStack' =
                IF ~called.descend THEN Tail(callStack)
                ELSE IF children = <<>> /\ depth > 0 THEN Tail(callStack)
                ELSE calls \o Tail(callStack)
    /\ UNCHANGED <<topDownRootNode, componentTimings, pcC, exceptComp>>

\* lines 83 to 87
SortAndReturn ==
    /\ pcC = "traverse"
    /\ callStack = <<>>
    /\ componentTimings' = <<SortComponents(reactComponents)>>
    /\ pcC' = "done"
    /\ UNCHANGED <<topDownRootNode, callStack, visited, reactComponents, exceptComp>>

NextComp == TraverseTopDownNode \/ SortAndReturn

SpecComp == InitComp /\ [][NextComp]_vars

----------------------------------------------------------------------------
(* Properties of logRecalculates *)

\* the event list given to logRecalculates, whatever the shape of the argument
InputItems ==
    IF "items" \in DOMAIN profile THEN profile.items ELSE profile.traceEvents.items

\* an UpdateLayoutTree event with a first beginData stack frame
HasFirstFrame(ev) ==
    /\ ev.name = "UpdateLayoutTree"
    /\ "beginData" \in DOMAIN ev.args
    /\ "stackTrace" \in DOMAIN ev.args.beginData
    /\ ev.args.beginData.stackTrace # <<>>

LocationOf(ev) ==
    LET f == Head(ev.args.beginData.stackTrace)
    IN  <<f.url, f.lineNumber, f.columnNumber>>

EntryLocation(e) == <<e.url, e.lineNumber, e.columnNumber>>

EventsAt(items, loc) ==
    {i \in 1..Len(items) : HasFirstFrame(items[i]) /\ LocationOf(items[i]) = loc}

RECURSIVE SumDur(_, _)
SumDur(items, I) ==
    IF I = {} THEN 0
    ELSE LET i == CHOOSE j \in I : TRUE
         IN  items[i].dur + SumDur(items, I \ {i})

Locations(items) ==
    {LocationOf(items[i]) : i \in {j \in 1..Len(items) : HasFirstFrame(items[j])}}

\* entries hold exactly the sums and counts of the events of items
Aggregates(entries, items) ==
    /\ Len(entries) = Cardinality(Locations(items))
    /\ \A loc \in Locations(items) :
         /\ Cardinality({k \in 1..Len(entries) : EntryLocation(entries[k]) = loc}) = 1
         /\ \A k \in 1..Len(entries) :
              EntryLocation(entries[k]) = loc =>
                /\ entries[k].duration = SumDur(items, EventsAt(items, loc))
                /\ entries[k].count = Cardinality(EventsAt(items, loc))
                /\ entries[k].key = loc[1] \o ":" \o ToString(loc[2])
                                           \o ":" \o ToString(loc[3])

\* C1: at every point of the forEach the entries hold, for each code location
\* url:lineNumber:columnNumber, one entry whose duration is the sum of dur and
\* whose count is the number of the UpdateLayoutTree events folded so far whose
\* first beginData stack frame has that location; after the loop this is true
\* of the whole trace, and the printed entries carry the same sums and counts.
C1_SumAndCountPerLocation ==
    /\ Aggregates(updateLayoutTreeEvents, SubSeq(InputItems, 1, idx - 1))
    /\ pcR \in {"sort", "done"} => Aggregates(updateLayoutTreeEvents, InputItems)
    /\ pcR = "done" =>
         /\ Len(reported) = Len(updateLayoutTreeEvents)
         /\ \A e \in {updateLayoutTreeEvents[k] : k \in 1..Len(updateLayoutTreeEvents)} :
              \E r \in {reported[k] : k \in 1..Len(reported)} :
                 r.key = e.key /\ r.duration = e.duration /\ r.count = e.count

\* two locations that differ in the column only, one of them hit twice
C1_Witness ==
    /\ pcR = "done"
    /\ Len(updateLayoutTreeEvents) >= 2
    /\ \E a, b \in 1..Len(updateLayoutTreeEvents) :
         /\ updateLayoutTreeEvents[a].url = updateLayoutTreeEvents[b].url
         /\ updateLayoutTreeEvents[a].lineNumber = updateLayoutTreeEvents[b].lineNumber
         /\ updateLayoutTreeEvents[a].columnNumber # updateLayoutTreeEvents[b].columnNumber
         /\ updateLayoutTreeEvents[a].count = 2

\* C2: the entries logRecalculates prints are in non-increasing order of
\* duration, and they are all the aggregated entries.
C2_ReportedSortedByDuration ==
    pcR = "done" =>
      /\ Len(reported) = Len(updateLayoutTreeEvents)
      /\ \A i, j \in 1..Len(reported) :
           i < j => reported[i].duration >= reported[j].duration

\* the entries were created in increasing order of duration: the sort moved them
C2_Witness ==
    /\ pcR = "done"
    /\ Len(reported) = 3
    /\ updateLayoutTreeEvents[1].duration < updateLayoutTreeEvents[2].duration
    /\ updateLayoutTreeEvents[2].duration < updateLayoutTreeEvents[3].duration

RECURSIVE WithFirstFrame(_)
WithFirstFrame(items) ==
    IF items = <<>> THEN <<>>
    ELSE IF HasFirstFrame(Head(items))
         THEN <<Head(items)>> \o WithFirstFrame(Tail(items))
         ELSE WithFirstFrame(Tail(items))

\* C3: a forEach step on an event that is not named UpdateLayoutTree, or that
\* has no beginData, no stackTrace or an empty stackTrace, leaves every entry
\* as it is and creates none; and after the loop the entries are those of the
\* trace with these events removed.
C3_EventsWithoutFrameChangeNothing ==
    /\ [][(pcR = "forEach" /\ idx <= Len(InputItems) /\ ~HasFirstFrame(InputItems[idx]))
            => updateLayoutTreeEvents' = updateLayoutTreeEvents]_vars
    /\ [](pcR \in {"sort", "done"} =>
            updateLayoutTreeEvents = Aggregate(<<>>, WithFirstFrame(InputItems)))

\* an event without a first frame was folded after an entry existed
C3_Witness ==
    /\ pcR = "done"
    /\ Len(InputItems) = 3
    /\ HasFirstFrame(InputItems[1])
    /\ InputItems[2].name # "UpdateLayoutTree"
    /\ InputItems[3].name = "UpdateLayoutTree" /\ ~HasFirstFrame(InputItems[3])
    /\ Len(updateLayoutTreeEvents) = 1

\* C4: logRecalculates({traceEvents: X}) and logRecalculates(X) print the same
\* entries with the same durations and counts in the same order.
C4_BothShapesSameResult ==
    (outObject # <<>> /\ outArray # <<>>) => outObject = outArray

\* both calls were made on a list that yields two entries
C4_Witness ==
    /\ outObject # <<>> /\ outArray # <<>>
    /\ Len(outArray[1]) >= 2

----------------------------------------------------------------------------
(* Properties of the capture orchestrator *)

Logged(e) == \E i \in 1..Len(log) : log[i] = e

FirstAt(e) == CHOOSE i \in 1..Len(log) : log[i] = e /\ \A j \in 1..(i - 1) : log[j] # e

Timeouts ==
    {i \in 1..Len(log) : log[i] \in {"timeout:goto", "timeout:waitForNetworkIdle",
                                      "timeout:waitForTimeout",
                                      "timeout:waitForNetworkIdle2"}}

RunCompleted ==
    /\ pc = "done"
    /\ exitCode = <<>>
    /\ Logged("tracing.stop")
    /\ Logged("clsGetTrackingResult")
    /\ Logged("browser.close")
    /\ Logged("print:Style Recalculates / Layout Reflows")
    /\ Logged("print:Layout Shifts")

\* C5: once navigation has begun, whichever of the bounded waits time out
\* (page.goto, the first waitForNetworkIdle, waitForTimeout, the second
\* waitForNetworkIdle), the run goes on: it stops the trace, reads the
\* tracking result, closes the browser and prints both report sections.
C5_TimeoutsDoNotAbort == (pc = "goto") ~> RunCompleted

\* a run that finished although three waits timed out
C5_Witness == RunCompleted /\ Cardinality(Timeouts) = 3

Precedes(a, b) == Logged(b) => (Logged(a) /\ FirstAt(a) < FirstAt(b))

Once(e) == Cardinality({i \in 1..Len(log) : log[i] = e}) <= 1

\* C6: the tracker is installed before the trace starts and before the
\* navigation; the trace is stopped before the tracking result is read; the
\* result is read before the browser is closed; the browser is closed before
\* the profile is loaded and source-mapped and before either report is
\* printed; and a run that reaches its end made every one of these calls.
C6_OrderOfCalls ==
    /\ Precedes("clsStartTracking", "tracing.start")
    /\ Precedes("clsStartTracking", "goto")
    /\ Precedes("tracing.start", "goto")
    /\ Precedes("tracing.stop", "clsGetTrackingResult")
    /\ Precedes("clsGetTrackingResult", "browser.close")
    /\ Precedes("browser.close", "loadProfileWithSourceMaps")
    /\ Precedes("loadProfileWithSourceMaps", "logRecalculates")
    /\ Precedes("logRecalculates", "logLayoutShifts")
    /\ \A e \in {"clsStartTracking", "tracing.start", "goto", "tracing.stop",
                  "clsGetTrackingResult", "browser.close",
                  "loadProfileWithSourceMaps", "logRecalculates",
                  "logLayoutShifts"} :
         Once(e) /\ (pc = "done" => Logged(e))

\* a finished run without a scroll
C6_Witness == pc = "done" /\ Logged("logLayoutShifts") /\ ~Logged("scrollToBottom")

----------------------------------------------------------------------------
(* Properties of logLayoutShifts *)

IsMoved(line) == line.kind = "moved"

\* every diff of the shifts up to n, in the order of the report
RECURSIVE DiffsUpTo(_)
DiffsUpTo(n) ==
    IF n = 0 THEN <<>> ELSE DiffsUpTo(n - 1) \o layoutShifts.items[n].diffs.items

\* the movement of one diff as the report words it: y before x
RECURSIVE MovementsWorded(_, _)
MovementsWorded(diffs, up) ==
    IF diffs = <<>> THEN <<>>
    ELSE LET d == Head(diffs)
             here == IF d.y > 0 THEN <<<<"down", d.y>>>>
                     ELSE IF d.y < 0 THEN <<<<up, -d.y>>>>
                     ELSE IF d.x > 0 THEN <<<<"right", d.x>>>>
                     ELSE IF d.x < 0 THEN <<<<"left", -d.x>>>>
                     ELSE <<>>
         IN  here \o MovementsWorded(Tail(diffs), up)

MovedPrinted ==
    LET lines == SelectSeq(console, IsMoved)
    IN  [i \in 1..Len(lines) |-> <<lines[i].word, lines[i].px>>]

\* C7 as stated: the printed movement lines are, diff by diff, "down" or "up"
\* by |y| px when y is not zero, else "right" or "left" by |x| px when x is
\* not zero, else no line.
C7_MovedUp_Original ==
    pcS = "done" => MovedPrinted = MovementsWorded(DiffsUpTo(layoutShifts.length), "up")

\* C7 amended: the same, with the word "top" (beside an upward arrow) where
\* y is negative.
C7_MovedLineBySign ==
    /\ MovedPrinted = MovementsWorded(DiffsUpTo(shiftIdx - 1), "top")
    /\ \A i \in 1..Len(console) :
         IsMoved(console[i]) =>
           console[i].arrow = (IF console[i].word = "top" THEN "up" ELSE console[i].word)

\* a report of a diff with a negative y and a non-zero x, and of one with x only
C7_Witness ==
    /\ pcS = "done"
    /\ layoutShifts.length = 2
    /\ layoutShifts.items[1].diffs.items = <<NodeDiff(3, -2)>>
    /\ layoutShifts.items[2].diffs.items = <<NodeDiff(-2, 0)>>
    /\ MovedPrinted = << <<"top", 2>>, <<"left", 2>> >>

----------------------------------------------------------------------------
(* Properties of the hydration analyzer *)

\* the event has a cpuProfile node whose callFrame's functionName is some
\* text followed by ".hydrate"
MarksHydration(e) ==
    /\ "args" \in DOMAIN e
    /\ "data" \in DOMAIN e.args
    /\ "cpuProfile" \in DOMAIN e.args.data
    /\ "nodes" \in DOMAIN e.args.data.cpuProfile
    /\ \E n \in {e.args.data.cpuProfile.nodes[i] :
                   i \in 1..Len(e.args.data.cpuProfile.nodes)} :
         /\ "callFrame" \in DOMAIN n
         /\ "functionName" \in DOMAIN n.callFrame
         /\ \E k \in 0..Len(n.callFrame.functionName) :
              SubSeq(n.callFrame.functionName, k + 1, Len(n.callFrame.functionName))
                = ".hydrate"

Markers == {i \in 1..Len(trace) : MarksHydration(trace[i])}

FirstMarker == CHOOSE i \in Markers : \A j \in Markers : i <= j

\* the no-stack-trace UpdateLayoutTree events of the trace, in trace order
Windows ==
    LET NoStack(e) == e.name = "UpdateLayoutTree" /\ "stackTrace" \notin DOMAIN e.args.beginData
        evs == SelectSeq(trace, NoStack)
    IN  [i \in 1..Len(evs) |->
           [start |-> evs[i].ts,
            end |-> evs[i].ts + (IF "dur" \in DOMAIN evs[i] THEN evs[i].dur ELSE 0)]]

WindowsBeforeMarker == {i \in 1..Len(Windows) : Windows[i].end < trace[FirstMarker].ts}

LastWindowBeforeMarker ==
    CHOOSE i \in WindowsBeforeMarker : \A j \in WindowsBeforeMarker : j <= i

\* C8: when the trace has a hydration marker and a no-stack-trace
\* UpdateLayoutTree window that ends before the marker's timestamp, the
\* analyzer selects the last such window as b and attributes the interval
\* from the end of window b to the start of window b+1.
C8_WindowAroundHydration ==
    (/\ pcH \in {"topDown", "report", "done", "TypeError"}
     /\ Markers # {}
     /\ WindowsBeforeMarker # {})
    => /\ pcH # "TypeError"
       /\ redrawIndexBeforeHydration = <<LastWindowBeforeMarker - 1>>
       /\ LastWindowBeforeMarker + 1 <= Len(Windows)
       /\ timing = <<Windows[LastWindowBeforeMarker].end,
                     Windows[LastWindowBeforeMarker + 1].start>>

\* C9: hydrationStartIndex is the index of the first event that marks the
\* hydration; when no event does, it is -1, the analyzer prints an error and
\* exits with code 1, and it has computed no window, called parser.topDown
\* not at all and printed no ranking.
C9_FirstMarkerOrExit ==
    pcH # "find" =>
      IF Markers # {}
      THEN hydrationStartIndex = <<FirstMarker - 1>> /\ pcH # "exited"
      ELSE /\ hydrationStartIndex = <<-1>>
           /\ pcH = "exited"
           /\ exitH = <<1>>
           /\ stderrH = <<"Could not find the react hydration">>
           /\ redrawTimings = <<>>
           /\ redrawIndexBeforeHydration = <<>>
           /\ timing = <<>>
           /\ topDownArgs = <<>>
           /\ reportsPrinted = FALSE

\* the analyzer exited on a trace whose only profile node is named
\* a.hydrateRoot, between two redraw windows
C9_Witness ==
    /\ pcH = "exited"
    /\ Len(trace) = 3
    /\ trace[2] = ProfileChunk(2000, <<FunctionNode("a.hydrateRoot")>>)
    /\ trace[1] = Redraw(1000)
    /\ trace[3] = Redraw(3000)

----------------------------------------------------------------------------
(* Properties of getReactComponents *)

RECURSIVE IsProperAncestor(_, _)
IsProperAncestor(a, n) ==
    LET p == topDownRootNode[n].parent
    IN  p # 0 /\ (p = a \/ IsProperAncestor(a, p))

\* the nodes of all entries, one after the other
RECURSIVE RecordedIn(_)
RecordedIn(entries) ==
    IF entries = <<>> THEN <<>> ELSE Head(entries).nodes \o RecordedIn(Tail(entries))

Recorded == RecordedIn(reactComponents)

RECURSIVE SumTotalTime(_)
SumTotalTime(nodes) ==
    IF nodes = <<>> THEN 0
    ELSE topDownRootNode[Head(nodes)].totalTime + SumTotalTime(Tail(nodes))

\* C10: the traversal never calls the callback below a recorded node; no
\* recorded node is a proper descendant of another recorded node; every
\* recorded node is in one entry, once; each entry's duration is the sum of
\* totalTime over its nodes; and the array returned holds these entries.
C10_ComponentsAreLeaves ==
    /\ \A i, j \in 1..Len(Recorded) :
         /\ ~IsProperAncestor(Recorded[i], Recorded[j])
         /\ i # j => Recorded[i] # Recorded[j]
    /\ \A i \in 1..Len(visited), j \in 1..Len(Recorded) :
         ~IsProperAncestor(Recorded[j], visited[i])
    /\ \A k \in 1..Len(reactComponents) :
         /\ reactComponents[k].nodes # <<>>
         /\ reactComponents[k].duration = SumTotalTime(reactComponents[k].nodes)
         /\ \A l \in 1..Len(reactComponents) :
              k # l => reactComponents[k].name # reactComponents[l].name
    /\ pcC = "done" =>
         {componentTimings[1][k] : k \in 1..Len(componentTimings[1])}
           = {reactComponents[k] : k \in 1..Len(reactComponents)}

\* Card twice, in two branches, and a Header below one of them that was not
\* recorded
C10_Witness ==
    /\ pcC = "done"
    /\ Len(topDownRootNode) = 4
    /\ topDownRootNode[2].parent = 1 /\ topDownRootNode[2].event = FunctionCall("/src/Card.js", "Card")
    /\ topDownRootNode[3].parent = 1 /\ topDownRootNode[3].event = FunctionCall("/src/Card.js", "Card")
    /\ topDownRootNode[4].parent = 2 /\ topDownRootNode[4].event = FunctionCall("/src/Header.js", "Header")
    /\ Len(reactComponents) = 1
    /\ reactComponents[1].nodes = <<2, 3>>
    /\ visited = <<1, 2, 3>>

=============================================================================
